---- MODULE Spec2Model ----
(***************************************************************************)
(* Model of the yt_down scripts: the chunk numbering of vocal_only.py /    *)
(* vocal_only1.py (get_next_vocal_number, split_wav_file,                  *)
(* process_youtube_video, main) and the duration sweep of remove_file.py   *)
(* (get_wav_duration, process_wav_files).                                  *)
(*                                                                         *)
(* A file name is a sequence of one-character strings, so that globbing,   *)
(* splitext, the digit filter, int() and the f-string formatting are       *)
(* computed on characters as the code computes them.                       *)
(***************************************************************************)
EXTENDS Integers, Sequences, FiniteSets, TLC

----------------------------------------------------------------------------
(* Bounds of the model *)

\* chunk files vocal1.wav .. vocal<MaxInit>.wav may be in the pipeline's
\* destination directory before the first invocation
MaxInit == 1
\* files vocal1.wav .. vocal<MaxDest>.wav may be in the final folder before the
\* sweep
MaxDest == 2
\* the numbering counter is applied to directories holding chunk files up to
\* vocal<MaxSuffix>.wav
MaxSuffix == 3
\* pipeline invocations (runs of main) in one behaviour
MaxRuns == 2
\* a track is at most MaxChunks chunk lengths long
MaxChunks == 2
\* deletions of files from the destination directory in one behaviour
MaxDeletes == 2
\* audio files under the swept tree
NumFiles == 3

----------------------------------------------------------------------------
(* Characters and strings *)

DigitChars == <<"0", "1", "2", "3", "4", "5", "6", "7", "8", "9">>

\* str.isdigit on one character
IsDigit(c) == \E k \in 1..Len(DigitChars) : DigitChars[k] = c

DigitVal(c) == (CHOOSE k \in 1..Len(DigitChars) : DigitChars[k] = c) - 1

\* int(s) for a non-empty string of digits (leading zeros allowed)
RECURSIVE ParseInt(_)
ParseInt(s) ==
    IF s = <<>> THEN 0
    ELSE ParseInt(SubSeq(s, 1, Len(s) - 1)) * Len(DigitChars) + DigitVal(s[Len(s)])

\* str(n) for n >= 0, as the f-string f'{n}' renders it
RECURSIVE IntToStr(_)
IntToStr(n) ==
    IF n < Len(DigitChars) THEN <<DigitChars[n + 1]>>
    ELSE IntToStr(n \div Len(DigitChars)) \o <<DigitChars[(n % Len(DigitChars)) + 1]>>

\* str.lower on the characters the model uses
LowerChar(c) ==
    CASE c = "W" -> "w"
      [] c = "A" -> "a"
      [] c = "V" -> "v"
      [] OTHER -> c

Lower(s) == [k \in 1..Len(s) |-> LowerChar(s[k])]

StartsWith(s, p) == Len(s) >= Len(p) /\ SubSeq(s, 1, Len(p)) = p

EndsWith(s, p) == Len(s) >= Len(p) /\ SubSeq(s, Len(s) - Len(p) + 1, Len(s)) = p

VocalPrefix == <<"v", "o", "c", "a", "l">>

WavExt == <<".", "w", "a", "v">>

\* f'vocal{n}.wav'
VocalName(n) == VocalPrefix \o IntToStr(n) \o WavExt

\* fnmatch of a base name against the pattern 'vocal*.wav'
GlobVocalWav(name) ==
    /\ Len(name) >= Len(VocalPrefix) + Len(WavExt)
    /\ StartsWith(name, VocalPrefix)
    /\ EndsWith(name, WavExt)

\* os.path.splitext(name)[0]: the name up to its last dot; leading dots
\* belong to the root, so a name whose only dots are leading has no extension
SplitextRoot(name) ==
    LET dots == {k \in 1..Len(name) : name[k] = "."}
    IN  IF dots = {} THEN name
        ELSE LET last == CHOOSE k \in dots : \A j \in dots : j <= k
             IN  IF \A j \in 1..last : name[j] = "." THEN name
                 ELSE SubSeq(name, 1, last - 1)

\* ''.join(filter(str.isdigit, name))
NumberPart(name) == SelectSeq(name, IsDigit)

SetMax(S) == CHOOSE m \in S : \A x \in S : x <= m

----------------------------------------------------------------------------
(* State *)

VARIABLES
    \* --- the destination directory of the pipeline (split_vocals) ---
    script,           \* which pipeline script runs: "vocal_only" or "vocal_only1"
    outExists,        \* os.path.exists(split_output_dir)
    outFiles,         \* base names of the files in split_output_dir
    csvExists,        \* os.path.isfile(split_output_dir/time_ranges.csv)
    csvRows,          \* the rows of time_ranges.csv, in file order
    tempExists,       \* os.path.exists('temp_processing')
    \* --- one invocation of main ---
    pc,               \* position in main / process_youtube_video / split_wav_file
    current_number,   \* current_number of main and process_youtube_video
    split_number,     \* current_number local to split_wav_file
    split_i,          \* loop index i of split_wav_file
    num_chunks,       \* num_chunks of split_wav_file
    total_length_ms,  \* len(audio)
    chunks,           \* the chunks this call of split_wav_file exported, in order
    exitCode,         \* exit status of the last finished invocation (-1: none yet)
    \* --- bookkeeping of what the invocations did ---
    runs,             \* invocations that got past the URL prompt
    startFiles,       \* outFiles when the current invocation started
    start_number,     \* the counter handed to process_youtube_video
    written,          \* numbers of the chunks exported by the current invocation
    assigned,         \* numbers of the chunks exported by earlier invocations
    failed,           \* the except clause of process_youtube_video ran
    cleaned,          \* clean_up(temp_dir) was called
    rmtreeFailed,     \* shutil.rmtree raised inside clean_up
    deletes,          \* files deleted from the destination directory so far
    first_call,       \* the first of two get_next_vocal_number calls: whether
                      \* the directory existed, and the number returned
    \* --- the sweep of remove_file.py: process_wav_files ---
    destInside,       \* final_folder_path lies directly under source_directory
    fs,               \* the files on disk: records [id, dir, name, kind]
    fs0,              \* the files on disk when the sweep started
    sweepPc,          \* position in process_wav_files
    stack,            \* directories os.walk has still to yield, next first
    root,             \* root of the current os.walk iteration
    todo,             \* ids of the files of root still to be looked at
    vocal_counter,    \* vocal_counter
    outcome,          \* per file id: what the sweep did with it
    lastMove          \* the last relocation: what it found and the name it chose

pipeVars == <<script, outExists, outFiles, csvExists, csvRows, tempExists, pc,
              current_number, split_number, split_i, num_chunks, total_length_ms,
              exitCode, runs, startFiles, start_number, written, assigned,
              failed, cleaned, rmtreeFailed, deletes, chunks, first_call>>

sweepVars == <<destInside, fs, fs0, sweepPc, stack, root, todo, vocal_counter,
               outcome, lastMove>>

vars == <<pipeVars, sweepVars>>

----------------------------------------------------------------------------
(* Numbering counter: get_next_vocal_number *)

\* the number one matched file contributes to max_number (0: none)
FileNumber(name) ==
    LET number_part == NumberPart(SplitextRoot(name))
    IN  IF number_part # <<>> THEN ParseInt(number_part) ELSE 0

GetNextCountPlusOne(exists, files) ==
    IF ~exists THEN 1
    ELSE Cardinality({f \in files : GlobVocalWav(f)}) + 1

GetNextNoIncrement(exists, files) ==
    IF ~exists THEN 1
    ELSE LET existing_files == {f \in files : GlobVocalWav(f)}
         IN  SetMax({0} \cup {FileNumber(f) : f \in existing_files})

GetNextMissingDirZero(exists, files) ==
    IF ~exists THEN 0
    ELSE LET existing_files == {f \in files : GlobVocalWav(f)}
             max_number == SetMax({0} \cup {FileNumber(f) : f \in existing_files})
         IN  max_number + 1

\* the value get_next_vocal_number returns for a directory
GetNextVocalNumber(exists, files) ==
    IF ~exists THEN 1
    ELSE LET existing_files == {f \in files : GlobVocalWav(f)}
             max_number == SetMax({0} \cup {FileNumber(f) : f \in existing_files})
         IN  max_number + 1

----------------------------------------------------------------------------
(* Segmenter arithmetic: split_wav_file, format_time *)

\* chunk_length_sec that process_youtube_video passes to split_wav_file
ChunkLengthSec(scr) == IF scr = "vocal_only" THEN 30 ELSE 5

\* the track lengths (ms) the model draws from: every whole number of chunks
\* below MaxChunks, and MaxChunks chunks followed by a sixth of a chunk (65 s
\* for two chunks of 30 s)
TrackLengths(scr) ==
    {k * 1000 * ChunkLengthSec(scr) : k \in 0..(MaxChunks - 1)}
        \cup {MaxChunks * 1000 * ChunkLengthSec(scr)
                  + (1000 * ChunkLengthSec(scr)) \div 6}

NumChunksFloor(length_ms, chunk_length_sec) ==
    length_ms \div (chunk_length_sec * 1000)

\* num_chunks of split_wav_file: the quotient, plus one for a remainder
NumChunks(length_ms, chunk_length_sec) ==
    (length_ms \div (chunk_length_sec * 1000))
        + (IF length_ms % (chunk_length_sec * 1000) > 0 THEN 1 ELSE 0)

\* start_ms of chunk i
StartMs(i, chunk_length_sec) == i * chunk_length_sec * 1000

\* end_ms of chunk i: vocal_only1 clamps it to the track length; vocal_only
\* leaves the clamping to the slice audio[start_ms:end_ms]
EndMs(i, chunk_length_sec, length_ms) ==
    LET end_ms == StartMs(i, chunk_length_sec) + chunk_length_sec * 1000
    IN  IF end_ms < length_ms THEN end_ms ELSE length_ms

\* f"{n:02}"
Pad2(n) == IF n < 10 THEN <<"0">> \o IntToStr(n) ELSE IntToStr(n)

\* format_time(ms): HH:MM:SS
FormatTime(ms) ==
    LET seconds == ms \div 1000
        minutes == seconds \div 60
        hours   == minutes \div 60
    IN  Pad2(hours) \o <<":">> \o Pad2(minutes % 60) \o <<":">> \o Pad2(seconds % 60)

CsvHeader == << <<"Filename">>, <<"Start Time">>, <<"End Time">> >>

WriteHeaderAlways(file_exists, rows) == Append(rows, CsvHeader)

\* the log opened in append mode: the header row is written when the file
\* did not exist before open() created it
WriteHeader(file_exists, rows) ==
    IF ~file_exists THEN Append(rows, CsvHeader) ELSE rows

----------------------------------------------------------------------------
(* Pipeline: main, process_youtube_video, split_wav_file, clean_up *)

\* input("URL: ").strip(), on the inputs the model draws
Urls == {<<>>, <<" ">>, <<"u">>}

Strip(s) == SelectSeq(s, LAMBDA c : c # " ")

\* no call of get_next_vocal_number has returned yet
NoCall == [existed |-> FALSE, number |-> 0]

splitLocals == <<split_number, split_i, num_chunks, total_length_ms, chunks>>
runBook == <<runs, startFiles, start_number, written, assigned>>
outDir == <<outExists, outFiles, csvExists, csvRows>>

\* main with no URL entered: prints a message and returns
Main_NoUrl ==
    /\ pc = "idle"
    /\ runs < MaxRuns
    /\ \E url \in Urls : Strip(url) = <<>>
    /\ exitCode' = 0
    /\ UNCHANGED <<sweepVars, first_call, script, deletes, outDir, tempExists, pc, current_number, splitLocals,
                   runBook, failed, cleaned, rmtreeFailed>>

\* main with a URL: get_next_vocal_number scans (or creates) the directory
Main_Start ==
    /\ pc = "idle"
    /\ runs < MaxRuns
    /\ \E url \in Urls : Strip(url) # <<>>
    /\ current_number' = GetNextVocalNumber(outExists, outFiles)
    /\ start_number' = GetNextVocalNumber(outExists, outFiles)
    /\ outExists' = TRUE
    /\ outFiles' = IF outExists THEN outFiles ELSE {}
    /\ startFiles' = IF outExists THEN outFiles ELSE {}
    /\ written' = {}
    /\ failed' = FALSE
    /\ cleaned' = FALSE
    /\ rmtreeFailed' = FALSE
    /\ exitCode' = -1
    /\ pc' = "download"
    /\ UNCHANGED <<sweepVars, first_call, script, deletes, csvExists, csvRows, tempExists, splitLocals, runs, assigned>>

RaiseSkipsFinally ==
    /\ failed' = TRUE
    /\ pc' = "return"

\* an exception inside the try block: the except clause prints it, then the
\* finally clause runs
Raise ==
    /\ failed' = TRUE
    /\ pc' = "finally"

\* os.makedirs(temp_dir) and download_audio: returns the mp3 or raises
Process_Download ==
    /\ pc = "download"
    /\ tempExists' = TRUE
    /\ \/ /\ pc' = "extract"
          /\ UNCHANGED failed
       \/ Raise
    /\ UNCHANGED <<sweepVars, first_call, script, deletes, outDir, current_number, splitLocals, exitCode, runBook,
                   cleaned, rmtreeFailed>>

\* extract_vocals: returns the vocals path or raises (file missing, timeout)
Process_Extract ==
    /\ pc = "extract"
    /\ \/ /\ pc' = "split_load"
          /\ UNCHANGED failed
       \/ Raise
    /\ UNCHANGED <<sweepVars, first_call, script, deletes, outDir, tempExists, current_number, splitLocals, exitCode,
                   runBook, cleaned, rmtreeFailed>>

\* split_wav_file up to its loop: decode the track (or raise), count the
\* chunks, make the directory; vocal_only1 opens the log and writes the header
\* when the log did not exist
Split_Load ==
    /\ pc = "split_load"
    /\ \/ /\ \E len \in TrackLengths(script) :
                /\ total_length_ms' = len
                /\ num_chunks' = NumChunks(len, ChunkLengthSec(script))
          /\ split_number' = current_number
          /\ split_i' = 0
          /\ chunks' = <<>>
          /\ outExists' = TRUE
          /\ IF script = "vocal_only1"
             THEN /\ csvExists' = TRUE
                  /\ csvRows' = WriteHeader(csvExists, csvRows)
             ELSE UNCHANGED <<csvExists, csvRows>>
          /\ pc' = "split_loop"
          /\ UNCHANGED failed
       \/ /\ Raise
          /\ UNCHANGED <<outExists, csvExists, csvRows, splitLocals>>
    /\ UNCHANGED <<sweepVars, first_call, script, deletes, outFiles, tempExists, current_number, exitCode, runBook,
                   cleaned, rmtreeFailed>>

\* one iteration of the loop: export the chunk under vocal<current_number>.wav
\* (vocal_only1 logs its time range), or chunk.export raises
Split_Export ==
    /\ pc = "split_loop"
    /\ split_i < num_chunks
    /\ \/ /\ outFiles' = outFiles \cup {VocalName(split_number)}
          /\ written' = written \cup {split_number}
          /\ IF script = "vocal_only1"
             THEN csvRows' = Append(csvRows,
                     << VocalName(split_number),
                        FormatTime(StartMs(split_i, ChunkLengthSec(script))),
                        FormatTime(EndMs(split_i, ChunkLengthSec(script),
                                         total_length_ms)) >>)
             ELSE UNCHANGED csvRows
          /\ chunks' = Append(chunks,
                  [name     |-> VocalName(split_number),
                   start_ms |-> StartMs(split_i, ChunkLengthSec(script)),
                   end_ms   |-> EndMs(split_i, ChunkLengthSec(script),
                                      total_length_ms)])
          /\ split_number' = split_number + 1
          /\ split_i' = split_i + 1
          /\ UNCHANGED <<pc, failed>>
       \/ /\ Raise
          /\ UNCHANGED <<outFiles, written, csvRows, split_number, split_i, chunks>>
    /\ UNCHANGED <<sweepVars, first_call, script, deletes, outExists, csvExists, tempExists, current_number,
                   num_chunks, total_length_ms, exitCode, runs, startFiles,
                   start_number, assigned, cleaned, rmtreeFailed>>

Split_ReturnLastUsed ==
    /\ pc = "split_loop"
    /\ split_i = num_chunks
    /\ current_number' = split_number - 1
    /\ pc' = "finally"
    /\ UNCHANGED <<sweepVars, first_call, script, deletes, outDir, tempExists, splitLocals,
                   exitCode, runBook, failed, cleaned, rmtreeFailed>>

\* split_wav_file returns; process_youtube_video stores the returned number
Split_Return ==
    /\ pc = "split_loop"
    /\ split_i = num_chunks
    /\ current_number' = split_number
    /\ pc' = "finally"
    /\ UNCHANGED <<sweepVars, first_call, script, deletes, outDir, tempExists, splitLocals, exitCode, runBook,
                   failed, cleaned, rmtreeFailed>>

\* finally: clean_up(temp_dir) removes the scratch directory if it exists; a
\* failure of shutil.rmtree is printed and swallowed
Process_Finally ==
    /\ pc = "finally"
    /\ cleaned' = TRUE
    /\ IF tempExists
       THEN \/ /\ tempExists' = FALSE
               /\ UNCHANGED rmtreeFailed
            \/ /\ rmtreeFailed' = TRUE
               /\ UNCHANGED tempExists
       ELSE UNCHANGED <<tempExists, rmtreeFailed>>
    /\ pc' = "return"
    /\ UNCHANGED <<sweepVars, first_call, script, deletes, outDir, current_number, splitLocals, exitCode, runBook,
                   failed>>

\* process_youtube_video returns current_number; main prints its summary and
\* the invocation ends (its locals are gone)
Main_Finish ==
    /\ pc = "return"
    /\ pc' = "idle"
    /\ exitCode' = 0
    /\ runs' = runs + 1
    /\ assigned' = assigned \cup written
    /\ current_number' = 0
    /\ split_number' = 0
    /\ split_i' = 0
    /\ num_chunks' = 0
    /\ total_length_ms' = 0
    /\ chunks' = <<>>
    /\ startFiles' = {}
    /\ start_number' = 0
    /\ written' = {}
    /\ failed' = FALSE
    /\ cleaned' = FALSE
    /\ rmtreeFailed' = FALSE
    /\ UNCHANGED <<sweepVars, first_call, script, deletes, outDir, tempExists>>

\* somebody deletes a file of the destination directory. An invocation reads
\* the directory only in Main_Start, so a deletion during an invocation has
\* the effect of the same deletion after it: deletions are taken between
\* invocations
Env_Delete ==
    /\ pc = "idle"
    /\ outExists
    /\ deletes < MaxDeletes
    /\ \E f \in outFiles : outFiles' = outFiles \ {f}
    /\ deletes' = deletes + 1
    /\ UNCHANGED <<sweepVars, first_call, script, outExists, csvExists, csvRows, tempExists, pc,
                   current_number, splitLocals, exitCode, runBook, failed, cleaned,
                   rmtreeFailed>>

\* the sweep is not running
SweepOff ==
    /\ destInside = FALSE
    /\ fs = {}
    /\ fs0 = {}
    /\ sweepPc = "off"
    /\ stack = <<>>
    /\ root = "none"
    /\ todo = {}
    /\ vocal_counter = 0
    /\ outcome = <<>>
    /\ lastMove = <<>>

\* names a destination directory may hold before the first invocation
InitChunkNames == {VocalName(n) : n \in 1..MaxInit}

MalformedName == <<"v", "o", "c", "a", "l", "1", "a", "2", ".", "w", "a", "v">>

PipeInit ==
    /\ script \in {"vocal_only", "vocal_only1"}
    /\ outExists \in BOOLEAN
    /\ outFiles \in SUBSET (InitChunkNames \cup {MalformedName})
    /\ ~outExists => outFiles = {}
    /\ csvExists = FALSE
    /\ csvRows = <<>>
    /\ tempExists = FALSE
    /\ pc = "idle"
    /\ current_number = 0
    /\ split_number = 0
    /\ split_i = 0
    /\ num_chunks = 0
    /\ total_length_ms = 0
    /\ exitCode = -1
    /\ runs = 0
    /\ startFiles = {}
    /\ start_number = 0
    /\ written = {}
    /\ assigned = {}
    /\ failed = FALSE
    /\ cleaned = FALSE
    /\ rmtreeFailed = FALSE
    /\ deletes = 0
    /\ chunks = <<>>
    /\ first_call = NoCall
    /\ SweepOff

PipeNext ==
    \/ Main_NoUrl
    \/ Main_Start
    \/ Process_Download
    \/ Process_Extract
    \/ Split_Load
    \/ Split_Export
    \/ Split_Return
    \/ Process_Finally
    \/ Main_Finish
    \/ Env_Delete

Spec == PipeInit /\ [][PipeNext]_vars

----------------------------------------------------------------------------
(* The numbering counter on its own: one call on an arbitrary directory *)

NameX == <<"v", "o", "c", "a", "l", "x", ".", "w", "a", "v">>

NameTake == <<"v", "o", "c", "a", "l", "_", "3", "_", "t", "a", "k", "e", "2",
              ".", "w", "a", "v">>

NameCsv == <<"t", "i", "m", "e", "_", "r", "a", "n", "g", "e", "s", ".", "c", "s", "v">>

NameMp3 == <<"v", "o", "c", "a", "l", "9", ".", "m", "p", "3">>

\* the names a directory handed to get_next_vocal_number may hold
NumNames ==
    {VocalName(n) : n \in 1..MaxSuffix}
        \cup {NameX, MalformedName, NameTake, NameCsv, NameMp3}

NumInit ==
    /\ script = "vocal_only"
    /\ outExists \in BOOLEAN
    /\ outFiles \in SUBSET NumNames
    /\ ~outExists => outFiles = {}
    /\ csvExists = FALSE
    /\ csvRows = <<>>
    /\ tempExists = FALSE
    /\ pc = "num_call"
    /\ current_number = 0
    /\ split_number = 0
    /\ split_i = 0
    /\ num_chunks = 0
    /\ total_length_ms = 0
    /\ exitCode = -1
    /\ runs = 0
    /\ startFiles = {}
    /\ start_number = 0
    /\ written = {}
    /\ assigned = {}
    /\ failed = FALSE
    /\ cleaned = FALSE
    /\ rmtreeFailed = FALSE
    /\ deletes = 0
    /\ chunks = <<>>
    /\ first_call = NoCall
    /\ SweepOff

\* get_next_vocal_number(output_dir): creates a missing directory; returns
\* the next number
Num_Call ==
    /\ pc = "num_call"
    /\ current_number' = GetNextVocalNumber(outExists, outFiles)
    /\ first_call' = [existed |-> outExists,
                      number  |-> GetNextVocalNumber(outExists, outFiles)]
    /\ outExists' = TRUE
    /\ pc' = "num_done"
    /\ UNCHANGED <<sweepVars, script, deletes, outFiles, csvExists, csvRows, tempExists,
                   splitLocals, exitCode, runBook, failed, cleaned, rmtreeFailed>>

\* get_next_vocal_number(output_dir) called again on the directory as the
\* first call left it
Num_CallAgain ==
    /\ pc = "num_done"
    /\ current_number' = GetNextVocalNumber(outExists, outFiles)
    /\ outExists' = TRUE
    /\ pc' = "num_twice"
    /\ UNCHANGED <<sweepVars, first_call, script, deletes, outFiles, csvExists, csvRows,
                   tempExists, splitLocals, exitCode, runBook, failed, cleaned,
                   rmtreeFailed>>

NumNext ==
    \/ Num_Call
    \/ Num_CallAgain

SpecNum == NumInit /\ [][NumNext]_vars

----------------------------------------------------------------------------
(* Triage sweep: remove_file.py *)

\* min_duration that main passes to process_wav_files
MinDuration == 30

\* the directories of the model: the swept directory and a subdirectory of it,
\* the final folder and a subdirectory of it
SourceDir == "S"

SubDir == "S/a"

FinalDir == "F"

FinalSubDir == "F/sub"

\* the subdirectories os.walk finds in a directory
Children(d, inside) ==
    IF d = SourceDir THEN {SubDir} \cup (IF inside THEN {FinalDir} ELSE {})
    ELSE IF d = FinalDir THEN {FinalSubDir}
    ELSE {}

\* the orders in which a directory listing can come
Orders(S) == {q \in [1..Cardinality(S) -> S] : \A i, j \in 1..Cardinality(S) : q[i] = q[j] => i = j}

\* what a file holds, as far as wave.open and the duration go
KExact == [wav |-> TRUE, openable |-> TRUE, frames |-> MinDuration * 100, rate |-> 100]

KShort == [wav |-> TRUE, openable |-> TRUE, frames |-> MinDuration * 100 - 1, rate |-> 100]

KLong == [wav |-> TRUE, openable |-> TRUE, frames |-> MinDuration * 100 + 1, rate |-> 100]

KCorrupt == [wav |-> TRUE, openable |-> FALSE, frames |-> 0, rate |-> 0]

KZeroRate == [wav |-> TRUE, openable |-> TRUE, frames |-> MinDuration * 100, rate |-> 0]

KText == [wav |-> FALSE, openable |-> FALSE, frames |-> 0, rate |-> 0]

FileKinds == {KExact, KShort, KLong, KCorrupt, KZeroRate, KText}

Letters == <<"a", "B", "c", "d", "e", "f">>

\* file k of the swept tree: where it lies and what it is called
HomeDir(k) ==
    CASE k % 4 = 1 -> SourceDir
      [] k % 4 = 2 -> FinalSubDir
      [] k % 4 = 3 -> SubDir
      [] OTHER -> SourceDir

SweepFileName(k, kind) ==
    <<Letters[k]>> \o
        (IF ~kind.wav THEN <<".", "t", "x", "t">>
         ELSE IF k % 2 = 0 THEN <<".", "W", "A", "V">> ELSE WavExt)

SourceFile(k, kind) ==
    [id |-> k, dir |-> HomeDir(k), name |-> SweepFileName(k, kind), kind |-> kind]

\* a file vocal<n>.wav already in the final folder
DestFile(n) ==
    [id |-> NumFiles + n, dir |-> FinalDir, name |-> VocalName(n), kind |-> KExact]

NoDuration == [none |-> TRUE, num |-> 0, den |-> 1]

\* get_wav_duration: frames / float(rate) as a fraction, or None when
\* wave.open raises or the division does
GetWavDuration(kind) ==
    IF ~kind.openable THEN NoDuration
    ELSE IF kind.rate = 0 THEN NoDuration
    ELSE [none |-> FALSE, num |-> kind.frames, den |-> kind.rate]

TriageNoneAsZero(kind, min_duration) ==
    LET duration == GetWavDuration(kind)
    IN  IF duration.none THEN "delete"
        ELSE IF duration.num < min_duration * duration.den
                \/ duration.num > min_duration * duration.den THEN "delete"
        ELSE "move"

TriageMinimum(kind, min_duration) ==
    LET duration == GetWavDuration(kind)
    IN  IF duration.none THEN "skip"
        ELSE IF duration.num < min_duration * duration.den THEN "delete"
        ELSE "move"

\* the branch process_wav_files takes for a .wav file
Triage(kind, min_duration) ==
    LET duration == GetWavDuration(kind)
    IN  IF duration.none THEN "skip"
        ELSE IF duration.num < min_duration * duration.den
                \/ duration.num > min_duration * duration.den THEN "delete"
        ELSE "move"

\* os.path.exists(os.path.join(final_folder_path, name))
ExistsInFinal(files, name) == \E f \in files : f.dir = FinalDir /\ f.name = name

FreeNumberNoLoop(counter, files) == counter

FreeNumberFromScan(counter, files) ==
    LET scanned == GetNextVocalNumber(TRUE, {f.name : f \in {g \in files : g.dir = FinalDir}})
        start == IF counter > scanned THEN counter ELSE scanned
    IN  CHOOSE n \in start..(start + Cardinality(files)) :
            /\ ~ExistsInFinal(files, VocalName(n))
            /\ \A m \in start..(n - 1) : ExistsInFinal(files, VocalName(m))

\* the value of vocal_counter when the while loop ends: the first number from
\* the counter on whose name does not exist in the final folder
FreeNumber(counter, files) ==
    CHOOSE n \in counter..(counter + Cardinality(files)) :
        /\ ~ExistsInFinal(files, VocalName(n))
        /\ \A m \in counter..(n - 1) : ExistsInFinal(files, VocalName(m))

\* shutil.move(filepath, new_filepath): the file gets the new path; a file
\* already at that path is replaced
Moved(files, f, name) ==
    {g \in files : g # f /\ ~(g.dir = FinalDir /\ g.name = name)}
        \cup {[f EXCEPT !.dir = FinalDir, !.name = name]}

NoMove == [id |-> 0, name |-> <<>>, destBefore |-> {}, counterBefore |-> 0]

\* the pipeline is not running
PipeOff ==
    /\ script = "vocal_only"
    /\ outExists = FALSE
    /\ outFiles = {}
    /\ csvExists = FALSE
    /\ csvRows = <<>>
    /\ tempExists = FALSE
    /\ pc = "off"
    /\ current_number = 0
    /\ split_number = 0
    /\ split_i = 0
    /\ num_chunks = 0
    /\ total_length_ms = 0
    /\ exitCode = -1
    /\ runs = 0
    /\ startFiles = {}
    /\ start_number = 0
    /\ written = {}
    /\ assigned = {}
    /\ failed = FALSE
    /\ cleaned = FALSE
    /\ rmtreeFailed = FALSE
    /\ deletes = 0
    /\ chunks = <<>>
    /\ first_call = NoCall

SweepInit ==
    /\ PipeOff
    /\ destInside \in BOOLEAN
    /\ \E kinds \in [1..NumFiles -> FileKinds], pre \in SUBSET (1..MaxDest) :
          fs = {SourceFile(k, kinds[k]) : k \in 1..NumFiles} \cup {DestFile(n) : n \in pre}
    /\ fs0 = fs
    /\ sweepPc = "start"
    /\ stack = <<>>
    /\ root = "none"
    /\ todo = {}
    /\ vocal_counter = 0
    /\ outcome = [k \in 1..NumFiles |-> "none"]
    /\ lastMove = NoMove

\* main of remove_file.py with no directory path entered: prints a message
\* and leaves through sys.exit(1)
SweepMain_NoPath ==
    /\ sweepPc = "start"
    /\ \E path \in Urls : Strip(path) = <<>>
    /\ sweepPc' = "exit_1"
    /\ UNCHANGED <<pipeVars, destInside, fs, fs0, stack, root, todo, vocal_counter,
                   outcome, lastMove>>

\* process_wav_files up to its loop: the final folder is made, the counter
\* starts at 1, os.walk starts at source_directory
Sweep_Start ==
    /\ sweepPc = "start"
    /\ vocal_counter' = 1
    /\ stack' = <<SourceDir>>
    /\ sweepPc' = "walk"
    /\ UNCHANGED <<pipeVars, destInside, fs, fs0, root, todo, outcome, lastMove>>

\* os.walk yields the next directory (top-down, subdirectories in listing
\* order); the final folder itself is passed over, its subdirectories are not
Sweep_NextDir ==
    /\ sweepPc = "walk"
    /\ todo = {}
    /\ stack # <<>>
    /\ root' = Head(stack)
    /\ \E q \in Orders(Children(Head(stack), destInside)) : stack' = q \o Tail(stack)
    /\ todo' = IF Head(stack) = FinalDir THEN {}
               ELSE {f.id : f \in {g \in fs : g.dir = Head(stack)}}
    /\ UNCHANGED <<pipeVars, destInside, fs, fs0, sweepPc, vocal_counter, outcome, lastMove>>

\* one file of the listing: not a .wav file, unmeasurable, deleted, or moved
\* under the next free name; os.remove and shutil.move may raise, which is
\* printed
Sweep_File ==
    /\ sweepPc = "walk"
    /\ \E f \in fs :
          /\ f.id \in todo
          /\ todo' = todo \ {f.id}
          /\ IF ~EndsWith(Lower(f.name), WavExt)
             THEN UNCHANGED <<fs, vocal_counter, outcome, lastMove>>
             ELSE CASE Triage(f.kind, MinDuration) = "skip" ->
                         /\ outcome' = [outcome EXCEPT ![f.id] = "skipped"]
                         /\ UNCHANGED <<fs, vocal_counter, lastMove>>
                    [] Triage(f.kind, MinDuration) = "delete" ->
                         \/ /\ fs' = fs \ {f}
                            /\ outcome' = [outcome EXCEPT ![f.id] = "deleted"]
                            /\ UNCHANGED <<vocal_counter, lastMove>>
                         \/ /\ outcome' = [outcome EXCEPT ![f.id] = "delete_failed"]
                            /\ UNCHANGED <<fs, vocal_counter, lastMove>>
                    [] OTHER ->
                         LET n == FreeNumber(vocal_counter, fs)
                         IN  \/ /\ fs' = Moved(fs, f, VocalName(n))
                                /\ vocal_counter' = n + 1
                                /\ outcome' = [outcome EXCEPT ![f.id] = "moved"]
                                /\ lastMove' = [id |-> f.id, name |-> VocalName(n),
                                                destBefore |-> {g.name : g \in {h \in fs : h.dir = FinalDir}},
                                                counterBefore |-> vocal_counter]
                             \/ /\ vocal_counter' = n
                                /\ outcome' = [outcome EXCEPT ![f.id] = "move_failed"]
                                /\ UNCHANGED <<fs, lastMove>>
    /\ UNCHANGED <<pipeVars, destInside, fs0, sweepPc, stack, root>>

\* os.walk is exhausted: the closing messages are printed
Sweep_Done ==
    /\ sweepPc = "walk"
    /\ todo = {}
    /\ stack = <<>>
    /\ sweepPc' = "done"
    /\ UNCHANGED <<pipeVars, destInside, fs, fs0, stack, root, todo, vocal_counter,
                   outcome, lastMove>>

SweepNext ==
    \/ SweepMain_NoPath
    \/ Sweep_Start
    \/ Sweep_NextDir
    \/ Sweep_File
    \/ Sweep_Done

SpecSweep == SweepInit /\ [][SweepNext]_vars

----------------------------------------------------------------------------
(* Properties *)

\* a chunk file name in the sense of the specification: vocal<digits>.wav
IsChunkName(name) ==
    /\ GlobVocalWav(name)
    /\ Len(name) > Len(VocalPrefix) + Len(WavExt)
    /\ \A k \in (Len(VocalPrefix) + 1)..(Len(name) - Len(WavExt)) : IsDigit(name[k])

\* the numeric suffix of a chunk file name
ChunkNumber(name) ==
    ParseInt(SubSeq(name, Len(VocalPrefix) + 1, Len(name) - Len(WavExt)))

ChunkNumbers(files) == {ChunkNumber(f) : f \in {g \in files : IsChunkName(g)}}

\* C1 (as stated): no invocation assigns a chunk number that an earlier
\* invocation already assigned, whatever files were deleted in between.
C1_NeverRepeats == written \cap assigned = {}

\* C1 (amended): an invocation that starts while the chunk file carrying the
\* highest number assigned so far is still in the directory assigns only
\* numbers above every number assigned before, whatever lower-numbered files
\* were deleted.
C1_NoRepeatWhileTopPresent ==
    LET top == SetMax(assigned \cup {0})
    IN  (assigned # {} /\ VocalName(top) \in startFiles)
            => \A n \in written : n > top

\* C1 witness: an invocation exported a chunk after a lower-numbered chunk of
\* an earlier invocation was deleted while the highest one was kept.
C1_Witness ==
    /\ written # {}
    /\ assigned # {}
    /\ VocalName(SetMax(assigned \cup {0})) \in startFiles
    /\ \E m \in assigned : VocalName(m) \notin startFiles

\* C2: every chunk an invocation exports has a number strictly greater than
\* the number of every chunk file that was in the directory when the
\* invocation started, so none of those files is overwritten.
C2_NoOverwrite ==
    \A n \in written :
        /\ VocalName(n) \notin startFiles
        /\ \A m \in ChunkNumbers(startFiles) : n > m

\* C2 witness: an invocation that found chunk files exported a chunk.
C2_Witness == written # {} /\ ChunkNumbers(startFiles) # {}

\* C8 (as stated): when process_youtube_video returns, clean_up has run and
\* the scratch directory no longer exists.
C8_ScratchGoneAtReturn == pc = "return" => (cleaned /\ ~tempExists)

\* C8 (amended): when process_youtube_video returns, on the success path and
\* on every failure path, clean_up has run; the scratch directory is gone
\* unless shutil.rmtree itself raised inside clean_up.
C8_CleanupOnEveryPath ==
    pc = "return" => (cleaned /\ (tempExists => rmtreeFailed))

\* C8 witness: a failed run returns with the scratch directory removed.
C8_Witness == pc = "return" /\ failed /\ cleaned /\ ~tempExists

\* C9 (as stated): when a step of process_youtube_video fails, the function
\* returns the counter it was given and no chunk file was written.
C9_FailureCommitsNothing ==
    (pc = "return" /\ failed) => (current_number = start_number /\ written = {})

\* C10 (as stated): get_next_vocal_number creates a missing directory and
\* returns 1 for it; otherwise it returns one more than the largest numeric
\* suffix among the chunk files vocal<digits>.wav, or 1 if there is none.
C10_NextNumber ==
    pc = "num_done" =>
        /\ outExists
        /\ current_number = SetMax(ChunkNumbers(outFiles) \cup {0}) + 1

\* the file with id k as it was when the sweep started
Original(k) == CHOOSE f \in fs0 : f.id = k

\* the measured duration equals the threshold exactly
ExactDuration(kind) == kind.frames = MinDuration * kind.rate

\* the sweep looked at file k and could measure it
Measured(k) == outcome[k] \notin {"none", "skipped"}

C4_NameFromScan ==
    lastMove.id # 0 =>
        lastMove.name = VocalName(SetMax(ChunkNumbers(lastMove.destBefore) \cup {0}) + 1)

\* C4 (amended): a relocated file is named vocal<N>.wav, N being the smallest
\* positive number for which the final folder holds no vocal<N>.wav at that
\* moment (vocal1.wav and vocal3.wav present: vocal2.wav, then vocal4.wav).
C4_SmallestFreeName ==
    lastMove.id # 0 =>
        /\ IsChunkName(lastMove.name)
        /\ lastMove.name = VocalName(ChunkNumber(lastMove.name))
        /\ ChunkNumber(lastMove.name) >= 1
        /\ lastMove.name \notin lastMove.destBefore
        /\ \A m \in 1..(ChunkNumber(lastMove.name) - 1) : VocalName(m) \in lastMove.destBefore

\* C4 witness: a file was relocated under a number below the largest number
\* in the final folder.
C4_Witness ==
    /\ lastMove.id # 0
    /\ ChunkNumbers(lastMove.destBefore) # {}
    /\ ChunkNumber(lastMove.name) < SetMax(ChunkNumbers(lastMove.destBefore) \cup {0})

\* C5: a relocation never replaces a file of the final folder: the files that
\* were there before the sweep and the files relocated earlier in the sweep
\* are all still there, each under its own name.
C5_RelocationNeverOverwrites ==
    sweepPc \in {"walk", "done"} =>
        /\ \A f \in fs0 : f.dir = FinalDir => f \in fs
        /\ \A k \in 1..NumFiles :
              outcome[k] = "moved" => \E g \in fs : g.id = k /\ g.dir = FinalDir
        /\ \A g, h \in fs : (g.dir = FinalDir /\ h.dir = FinalDir /\ g.name = h.name) => g = h
        /\ lastMove.name \notin lastMove.destBefore

\* C5 witness: with vocal1.wav alone in the final folder, a qualifying file
\* was relocated as vocal2.wav.
C5_Witness ==
    /\ lastMove.id # 0
    /\ lastMove.destBefore = {VocalName(1)}
    /\ lastMove.name = VocalName(2)
    /\ DestFile(1) \in fs

\* C6 (as stated): the sweep neither deletes nor moves a file that lies in the
\* final folder or in any subdirectory of it.
C6_FinalFolderUntouched ==
    \A f \in fs0 : f.dir \in {FinalDir, FinalSubDir} => f \in fs

\* C7: when get_wav_duration returns None for a .wav file, that step of the
\* sweep deletes nothing, moves nothing, leaves vocal_counter as it was, marks
\* the file skipped, and the walk goes on with the files and directories that
\* remain.
C7_UnmeasurableSkipped ==
    [][\A f \in fs :
          (/\ f.id \in todo
           /\ f.id \notin todo'
           /\ EndsWith(Lower(f.name), WavExt)
           /\ GetWavDuration(f.kind).none)
          => (/\ fs' = fs
              /\ vocal_counter' = vocal_counter
              /\ outcome' = [outcome EXCEPT ![f.id] = "skipped"]
              /\ sweepPc' = "walk"
              /\ todo' = todo \ {f.id}
              /\ stack' = stack)]_vars

\* C7 witness: a sweep skipped an unmeasurable file of the swept directory and
\* went on to delete a file of its subdirectory.
C7_Witness ==
    /\ sweepPc = "done"
    /\ \E k, j \in 1..NumFiles :
          /\ outcome[k] = "skipped" /\ Original(k).dir = SourceDir
          /\ Original(k) \in fs
          /\ outcome[j] = "deleted" /\ Original(j).dir = SubDir

\* a name the glob vocal*.wav matches that is not of the form vocal<digits>.wav
IsMalformedName(name) == GlobVocalWav(name) /\ ~IsChunkName(name)

\* C11 (as stated): a name that matches vocal*.wav without being of the form
\* vocal<digits>.wav has no influence on the number get_next_vocal_number
\* returns: the call returns what it returns for the same directory without
\* those names.
C11_MalformedIgnored ==
    pc = "num_done" =>
        current_number =
            GetNextVocalNumber(TRUE, {f \in outFiles : ~IsMalformedName(f)})

\* C12: get_next_vocal_number is idempotent: called a second time on the
\* directory as the first call left it (no chunk file created or removed in
\* between), it returns the number the first call returned; this includes a
\* directory that did not exist before the first call.
C12_Idempotent == pc = "num_twice" => current_number = first_call.number

\* C12 witness: two calls were made on a directory that did not exist before
\* the first one, and both returned 1.
C12_Witness ==
    /\ pc = "num_twice"
    /\ ~first_call.existed
    /\ first_call.number = 1
    /\ current_number = 1

\* the smallest whole number of pieces of length piece that cover length
Ceiling(length, piece) ==
    CHOOSE n \in 0..length :
        /\ n * piece >= length
        /\ n > 0 => (n - 1) * piece < length

Smaller(a, b) == IF a < b THEN a ELSE b

RECURSIVE TotalLength(_)
\* the lengths of the chunks of a sequence, added up
TotalLength(cs) ==
    IF cs = <<>> THEN 0
    ELSE (Head(cs).end_ms - Head(cs).start_ms) + TotalLength(Tail(cs))

\* split_wav_file has returned normally
SplitReturned == pc \in {"finally", "return"} /\ ~failed

\* C13: a split_wav_file call that returns has exported exactly ceil(T/L)
\* chunks for a track of length T and a chunk length L; chunk i (from 0) covers
\* [i*L, min((i+1)*L, T)]; the chunk lengths add up to T and every chunk but
\* the last has length L.
C13_ChunksCoverTrack ==
    SplitReturned =>
        LET L == ChunkLengthSec(script) * 1000
            T == total_length_ms
            n == Len(chunks)
        IN  /\ n = Ceiling(T, L)
            /\ \A i \in 0..(n - 1) :
                  /\ chunks[i + 1].start_ms = i * L
                  /\ chunks[i + 1].end_ms = Smaller((i + 1) * L, T)
            /\ TotalLength(chunks) = T
            /\ \A i \in 0..(n - 2) : chunks[i + 1].end_ms - chunks[i + 1].start_ms = L

\* C13 witness: a track of 65 s was split with a chunk length of 30 s into
\* chunks of 30, 30 and 5 seconds.
C13_Witness ==
    /\ SplitReturned
    /\ ChunkLengthSec(script) = 30
    /\ total_length_ms = 65000
    /\ [i \in 1..Len(chunks) |-> chunks[i].end_ms - chunks[i].start_ms]
           = <<30000, 30000, 5000>>

\* C14: a split_wav_file call that returns, started with number S and having
\* exported C chunks, has written exactly the files vocalS.wav ..
\* vocal(S+C-1).wav, in chunk order, without gap or duplicate, and returns S+C.
C14_ContiguousNumbers ==
    SplitReturned =>
        LET S == start_number
            C == Len(chunks)
        IN  /\ \A i \in 1..C : chunks[i].name = VocalName(S + i - 1)
            /\ written = S..(S + C - 1)
            /\ outFiles = startFiles \cup {VocalName(n) : n \in S..(S + C - 1)}
            /\ current_number = S + C

\* C14 witness: a call started above 1 exported three chunks and returned
\* its start number plus three.
C14_Witness ==
    /\ SplitReturned
    /\ start_number > 1
    /\ Len(chunks) = 3
    /\ current_number = start_number + 3

\* C15: in the destination directory of vocal_only1, time_ranges.csv holds
\* the header row exactly once, as its first row; every step that exports a
\* chunk appends exactly one row, the row of that chunk, and no other step
\* changes the rows already there except the one that creates the log with
\* its header. The rows after the header are therefore the chunks written by
\* all calls, one each, in chunk order.
C15_LogAppendOnly ==
    /\ [](script = "vocal_only1" =>
            /\ csvExists <=> csvRows # <<>>
            /\ csvExists => csvRows[1] = CsvHeader
            /\ \A k \in 2..Len(csvRows) : csvRows[k] # CsvHeader)
    /\ [][script = "vocal_only1" =>
            IF Len(chunks') = Len(chunks) + 1
            THEN \E row \in {csvRows'[Len(csvRows')]} :
                    /\ csvRows' = Append(csvRows, row)
                    /\ Len(row) = 3
                    /\ row[1] = chunks'[Len(chunks')].name
            ELSE \/ csvRows' = csvRows
                 \/ /\ ~csvExists
                    /\ csvRows' = <<CsvHeader>>]_vars

\* C15 witness: two invocations of vocal_only1 exported three chunks each
\* into the same directory; the log holds the header and six rows.
C15_Witness ==
    /\ script = "vocal_only1"
    /\ runs = 1
    /\ Len(chunks) = 3
    /\ Len(csvRows) = 7
    /\ csvRows[1] = CsvHeader
    /\ csvRows[7][1] = chunks[3].name

\* C16 (as stated, for vocal_only and vocal_only1): a step in which main ends
\* at the URL prompt because no URL was entered sets a non-zero exit status,
\* and downloads, splits and writes nothing.
C16_NoInputExitsNonZero ==
    [][Main_NoUrl =>
          /\ exitCode' > 0
          /\ UNCHANGED <<outDir, tempExists, runBook>>]_vars

====
